---- MODULE Spec2Model ----
(***************************************************************************)
(* A model of the FactChecker frontend's incremental-update core:          *)
(*   - the update merge log   (store/appStore.ts, addThinkingUpdate),      *)
(*   - the reveal scheduler   (useTypewriter in App.tsx),                  *)
(*   - the commit controller  (App.tsx handleMessage and the display-      *)
(*     completion effect, InputPane.handleSubmit, ThinkingBlock).          *)
(*                                                                         *)
(* Texts are sequences of one-letter strings.  A verification result is    *)
(* represented by its claim_id, the only field the controller reads.       *)
(*                                                                         *)
(* Specifications sharing the module:                                      *)
(*   MergeSpec                     events merged one by one into the log   *)
(*   TwSpec, TwFairSpec            one typewriter instance                 *)
(*   SpecExtract, SpecExtractFair  bulk submit, extraction, confirmation   *)
(*   SpecVerify                    single submit, narrative, results       *)
(*   SpecRelease                   websocket events and timers only        *)
(*   SpecLate, SpecLateFair        one claim, result after its last entry  *)
(*   SpecReveal                    one refined narrative and its reveal    *)
(*   SpecSession                   sessions separated by reset()           *)
(*   SpecNavigate                  HTTP flows and manual pane selection    *)
(*   SpecInbound                   every inbound message type, extraction  *)
(*   WsSpec                        the WebSocketClient singleton           *)
(***************************************************************************)
EXTENDS Integers, Sequences, FiniteSets, TLC

VARIABLES
    \* ---- zustand store (store/appStore.ts) ----
    sessionId, focusPane, extractedClaims, selectedClaims,
    thinkingUpdates, verificationResults, status, statusMessage, error,
    \* ---- App refs (App.tsx 58-59) ----
    pendingClaimsRef, pendingResultsRef,
    \* ---- mounted ThinkingBlock instances (typewriter + 500ms timer) ----
    blocks,
    \* ---- HTTP requests in flight (their continuations) ----
    inflight,
    \* ---- history: what the last step's run of the App effect started from ----
    effectRun,
    \* ---- history: order of first result arrival / first terminal display ----
    arrOrder, dcOrder,
    \* ---- MergeSpec history: events merged so far, log after each ----
    fed, hist,
    \* ---- TwSpec: one typewriter instance and its props ----
    tw, twChanges,
    \* ---- the WebSocketClient singleton (services/WebSocketClient.ts) ----
    ws,
    \* ---- history: messages each handler was notified of, that number when
    \* ---- a payload last failed to parse; length of the log when
    \* ---- handleMessage last fell through to its default case
    delivered, droppedAt, unknownAt

storeVars == <<sessionId, focusPane, extractedClaims, selectedClaims,
               thinkingUpdates, verificationResults, status, statusMessage, error>>
appVars   == <<storeVars, pendingClaimsRef, pendingResultsRef, blocks, inflight,
               effectRun>>
orderVars == <<arrOrder, dcOrder>>
mergeVars == <<fed, hist>>
twVars    == <<tw, twChanges>>
wsVars    == <<ws, delivered, droppedAt, unknownAt>>
vars      == <<appVars, orderVars, mergeVars, twVars, wsVars>>

NULL == "null"
\* a nullable ref holding a collection: <<>> is null, <<v>> holds v
NullRef == <<>>
Ref(v) == <<v>>

(***************************************************************************)
(* Generic helpers                                                         *)
(***************************************************************************)
Last(s) == s[Len(s)]

RECURSIVE Flatten(_)
\* string concatenation of a sequence of texts
Flatten(ss) == IF ss = <<>> THEN <<>> ELSE Head(ss) \o Flatten(Tail(ss))

(***************************************************************************)
(* UPDATE MERGE LOG  (store/appStore.ts 100-142)                           *)
(***************************************************************************)
\* An inbound ThinkingUpdate.  Absent optional flags are FALSE (falsy).
Update(c, p, m, nat, ref, del, fin) ==
    [claim_id |-> c, phase |-> p, message |-> m,
     is_native_thought |-> nat, is_refined |-> ref, is_delta |-> del,
     is_streaming_complete |-> fin, isDisplayComplete |-> FALSE]

SamePair(u, e) == u.claim_id = e.claim_id /\ u.phase = e.phase

\* number of entries of a log that carry the (claim_id, phase) of e
PairCount(log, e) == Cardinality({n \in 1..Len(log) : SamePair(log[n], e)})

\* rule 1 applies: native chunk and the last entry is the same pair's native entry
Rule1Applies(log, update) ==
    /\ update.is_native_thought
    /\ Len(log) > 0
    /\ SamePair(Last(log), update)
    /\ Last(log).is_native_thought

\* thinkingUpdates.findIndex(...) of rule 2; 0 stands for -1
ExistingIndex(log, update) ==
    LET hits == {i \in 1..Len(log) :
                    /\ SamePair(log[i], update)
                    /\ (log[i].is_delta \/ log[i].is_refined)}
    IN IF hits = {} THEN 0 ELSE CHOOSE i \in hits : \A j \in hits : i <= j

Rule2Applies(log, update) ==
    /\ (update.is_delta \/ update.is_streaming_complete)
    /\ ExistingIndex(log, update) # 0

\* variant: rule 1 puts the new fragment in front of the accumulated text
addThinkingUpdatePrepend(log, update) ==
    IF Rule1Applies(log, update)
    THEN [log EXCEPT ![Len(log)] =
              [Last(log) EXCEPT !.message = update.message \o Last(log).message]]
    ELSE IF Rule2Applies(log, update)
    THEN [log EXCEPT ![ExistingIndex(log, update)] = update]
    ELSE Append(log, update)

\* variant: rule 2 overwrites only the text of the entry it finds
addThinkingUpdateTextOnly(log, update) ==
    IF Rule1Applies(log, update)
    THEN [log EXCEPT ![Len(log)] =
              [Last(log) EXCEPT !.message = Last(log).message \o update.message]]
    ELSE IF Rule2Applies(log, update)
    THEN [log EXCEPT ![ExistingIndex(log, update)] =
              [@ EXCEPT !.message = update.message]]
    ELSE Append(log, update)

\* variant: rule 2 looks the entry up by claim_id alone
addThinkingUpdateAnyPhase(log, update) ==
    LET hits == {i \in 1..Len(log) :
                    /\ log[i].claim_id = update.claim_id
                    /\ (log[i].is_delta \/ log[i].is_refined)}
        idx  == IF hits = {} THEN 0 ELSE CHOOSE i \in hits : \A j \in hits : i <= j
    IN IF Rule1Applies(log, update)
       THEN [log EXCEPT ![Len(log)] =
                 [Last(log) EXCEPT !.message = Last(log).message \o update.message]]
       ELSE IF (update.is_delta \/ update.is_streaming_complete) /\ idx # 0
       THEN [log EXCEPT ![idx] = update]
       ELSE Append(log, update)

\* variant: a replacement keeps the replaced entry's isDisplayComplete
addThinkingUpdateKeepFlag(log, update) ==
    IF Rule1Applies(log, update)
    THEN [log EXCEPT ![Len(log)] =
              [Last(log) EXCEPT !.message = Last(log).message \o update.message]]
    ELSE IF Rule2Applies(log, update)
    THEN [log EXCEPT ![ExistingIndex(log, update)] =
              [update EXCEPT !.isDisplayComplete =
                   log[ExistingIndex(log, update)].isDisplayComplete]]
    ELSE Append(log, update)

\* variant: rule 3 drops an event whose pair already has an entry
addThinkingUpdateDedupe(log, update) ==
    IF Rule1Applies(log, update)
    THEN [log EXCEPT ![Len(log)] =
              [Last(log) EXCEPT !.message = Last(log).message \o update.message]]
    ELSE IF Rule2Applies(log, update)
    THEN [log EXCEPT ![ExistingIndex(log, update)] = update]
    ELSE IF PairCount(log, update) > 0 THEN log
    ELSE Append(log, update)

addThinkingUpdate(log, update) ==
    IF Rule1Applies(log, update)
    THEN [log EXCEPT ![Len(log)] =
              [Last(log) EXCEPT !.message = Last(log).message \o update.message]]
    ELSE IF Rule2Applies(log, update)
    THEN [log EXCEPT ![ExistingIndex(log, update)] = update]
    ELSE Append(log, update)

(***************************************************************************)
(* REVEAL SCHEDULER  (useTypewriter, App.tsx 259-322)                      *)
(***************************************************************************)
\* speeds ThinkingBlock passes: isLast ? 20 : 0  (part_001 304)
TypeSpeed == 20
InstantSpeed == 0

\* useState / useRef initial values of a freshly mounted hook (260-266)
TwInitial(text, speed) ==
    [text |-> text, speed |-> speed, textRef |-> text, index |-> 0,
     displayedText |-> <<>>, isComplete |-> FALSE, interval |-> FALSE,
     live |-> 0]

\* variant: every run of the effect restarts from zero
HardResetAlways(text, index) == TRUE

\* variant: a text that ends exactly at the reveal position also resets
HardResetAtEnd(text, index) == Len(text) = 0 \/ Len(text) <= index

\* the hard-reset test of the effect (281)
HardReset(text, index) == Len(text) = 0 \/ Len(text) < index

\* clearInterval(intervalRef.current) when the ref holds an interval
Cleared(t) == IF t.interval THEN t.live - 1 ELSE t.live

\* variant: the effect starts its interval without clearing the one in the ref
TwEffectNoClear(t, text, speed) ==
    LET hard == HardReset(text, t.index)
        idx  == IF hard THEN 0 ELSE t.index
        base == [t EXCEPT !.text = text, !.speed = speed, !.textRef = text,
                          !.index = idx,
                          !.displayedText = IF hard THEN <<>> ELSE t.displayedText,
                          !.isComplete = IF hard THEN FALSE ELSE t.isComplete]
    IN IF Len(text) = 0 THEN base
       ELSE IF idx >= Len(text) THEN [base EXCEPT !.isComplete = TRUE]
       ELSE [base EXCEPT !.isComplete = FALSE, !.interval = TRUE,
                         !.live = t.live + 1]

\* Both effects of one commit with props (text, speed): textRef sync (269-271),
\* then the main effect (273-319), whose first act is to clear the interval.
\* interval: intervalRef.current is not null; live: intervals set and not cleared.
TwEffect(t, text, speed) ==
    LET hard == HardReset(text, t.index)
        idx  == IF hard THEN 0 ELSE t.index
        base == [t EXCEPT !.text = text, !.speed = speed, !.textRef = text,
                          !.interval = FALSE, !.live = Cleared(t), !.index = idx,
                          !.displayedText = IF hard THEN <<>> ELSE t.displayedText,
                          !.isComplete = IF hard THEN FALSE ELSE t.isComplete]
    IN IF Len(text) = 0 THEN base
       ELSE IF idx >= Len(text) THEN [base EXCEPT !.isComplete = TRUE]
       ELSE [base EXCEPT !.isComplete = FALSE, !.interval = TRUE,
                         !.live = Cleared(t) + 1]

TwMount(text, speed) == TwEffect(TwInitial(text, speed), text, speed)

\* variant: the callback stops the interval at the end without reporting completion
TwTickSilent(t) ==
    IF t.index < Len(t.textRef)
    THEN [t EXCEPT !.displayedText = SubSeq(t.textRef, 1, t.index + 1),
                   !.index = t.index + 1]
    ELSE [t EXCEPT !.interval = FALSE, !.live = Cleared(t)]

\* one firing of the interval callback (297-311); enabled while the interval is live
TwTick(t) ==
    IF t.index < Len(t.textRef)
    THEN [t EXCEPT !.displayedText = SubSeq(t.textRef, 1, t.index + 1),
                   !.index = t.index + 1]
    ELSE [t EXCEPT !.interval = FALSE, !.live = Cleared(t), !.isComplete = TRUE]

(***************************************************************************)
(* APPLICATION: store, refs, ThinkingPane blocks                           *)
(***************************************************************************)
ExtractionId == "extraction_thinking"
ClaimIds     == {"A", "B"}
Statuses     == {"idle", "extracting", "awaiting_confirmation",
                 "verifying", "completed", "error"}
Panes        == {"input", "thinking", "results"}
ReqKinds     == {"single", "bulk", "confirm"}

\* bounds of the application model
MaxLog      == 2    \* entries in thinkingUpdates
MaxResults  == 2    \* entries in verificationResults
MaxInFlight == 1    \* outstanding HTTP requests
MaxAppText  == 2    \* letters in one entry's message

\* history value of a step in which the App effect did not run
NoRun == [ran |-> FALSE, pending |-> {}, results |-> <<>>]

\* store initial values (appStore.ts 66-160), refs (App.tsx 58-59)
AppInit ==
    /\ sessionId = NULL
    /\ focusPane = "input"
    /\ extractedClaims = {}
    /\ selectedClaims = {}
    /\ thinkingUpdates = <<>>
    /\ verificationResults = <<>>
    /\ status = "idle"
    /\ statusMessage = ""
    /\ error = NULL
    /\ pendingClaimsRef = NullRef
    /\ pendingResultsRef = {}
    /\ blocks = <<>>
    /\ inflight = [k \in ReqKinds |-> 0]
    /\ effectRun = NoRun

\* number of HTTP requests whose response is outstanding
InFlightCount == inflight["single"] + inflight["bulk"] + inflight["confirm"]

\* ---- ThinkingPane rendering (part_001 338-369, App.tsx 219-226) ----
RECURSIVE DisplayIdxFrom(_, _)
\* thinkingUpdates.filter(u => !u.is_native_thought), as log indices
DisplayIdxFrom(log, k) ==
    IF k > Len(log) THEN <<>>
    ELSE IF ~log[k].is_native_thought THEN <<k>> \o DisplayIdxFrom(log, k + 1)
    ELSE DisplayIdxFrom(log, k + 1)

displayUpdates(log) ==
    LET idx == DisplayIdxFrom(log, 1) IN [i \in 1..Len(idx) |-> log[idx[i]]]

\* the React key of a ThinkingBlock (part_001 365)
BlockKey(u, i) == <<u.claim_id, u.phase, u.is_delta, i>>

\* ThinkingBlock's completion-sync effect (part_001 307-314): when a
\* dependency changed, the cleanup clears the timer and the effect re-arms it
\* iff isComplete && !update.isDisplayComplete
SyncTimer(oldTimer, oldComplete, oldDc, newComplete, newDc) ==
    IF oldComplete = newComplete /\ oldDc = newDc
    THEN oldTimer
    ELSE newComplete /\ ~newDc

\* Reconciliation of the mounted blocks against a new log / status.
\* ThinkingPane is mounted only while status # idle (App.tsx 219).
Render(old, log, st) ==
    IF st = "idle" THEN <<>>
    ELSE
      LET d == displayUpdates(log) IN
      [i \in 1..Len(d) |->
         LET u     == d[i]
             speed == IF i = Len(d) THEN TypeSpeed ELSE InstantSpeed
             key   == BlockKey(u, i)
         IN IF i <= Len(old) /\ old[i].key = key
            THEN LET o  == old[i]
                     t2 == IF o.tw.text # u.message \/ o.tw.speed # speed
                           THEN TwEffect(o.tw, u.message, speed)
                           ELSE o.tw
                 IN [key |-> key, tw |-> t2, dc |-> u.isDisplayComplete,
                     timer |-> SyncTimer(o.timer, o.tw.isComplete, o.dc,
                                         t2.isComplete, u.isDisplayComplete)]
            ELSE [key |-> key, tw |-> TwMount(u.message, speed),
                  dc |-> u.isDisplayComplete, timer |-> FALSE]]

\* store action called by the 500ms timer; not defined in store/appStore.ts
setThinkingDisplayComplete(log, c, p) ==
    [i \in 1..Len(log) |->
        IF log[i].claim_id = c /\ log[i].phase = p
        THEN [log[i] EXCEPT !.isDisplayComplete = TRUE]
        ELSE log[i]]

\* ---- the display-completion effect (App.tsx 123-164) ----
\* The fields the effect reads and writes, as one record.
Cur ==
    [status |-> status, statusMessage |-> statusMessage,
     thinkingUpdates |-> thinkingUpdates,
     verificationResults |-> verificationResults, focusPane |-> focusPane,
     pendingClaims |-> pendingClaimsRef, pendingResults |-> pendingResultsRef]

\* thinkingUpdates.find(u => claim_id === 'extraction_thinking' && is_streaming_complete)
ExtractionThinking(log) ==
    LET hits == {i \in 1..Len(log) :
                    log[i].claim_id = ExtractionId /\ log[i].is_streaming_complete}
    IN IF hits = {} THEN 0 ELSE CHOOSE i \in hits : \A j \in hits : i <= j

\* variant: the transition leaves the claim set in the buffer
ExtractionSyncKeep(s) ==
    LET i == ExtractionThinking(s.thinkingUpdates) IN
    IF /\ s.status = "extracting"
       /\ i # 0
       /\ s.thinkingUpdates[i].isDisplayComplete
       /\ s.pendingClaims # NullRef
    THEN [s EXCEPT !.status = "awaiting_confirmation",
                   !.statusMessage = "Review and confirm claims"]
    ELSE s

\* 1. Sync Extraction -> Confirmation (125-135)
ExtractionSync(s) ==
    LET i == ExtractionThinking(s.thinkingUpdates) IN
    IF /\ s.status = "extracting"
       /\ i # 0
       /\ s.thinkingUpdates[i].isDisplayComplete
       /\ s.pendingClaims # NullRef
    THEN [s EXCEPT !.status = "awaiting_confirmation",
                   !.statusMessage = "Review and confirm claims",
                   !.pendingClaims = NullRef]
    ELSE s

\* an entry of the log that releases a pending result (140-142)
Releasable(u, pending) ==
    u.phase = "completed" /\ u.isDisplayComplete /\ u.claim_id \in pending

RECURSIVE ReleaseScanOne(_, _, _, _)
\* variant: the scan stops at the first result it releases
ReleaseScanOne(log, k, pending, results) ==
    IF k > Len(log) THEN [pending |-> pending, results |-> results]
    ELSE IF Releasable(log[k], pending)
    THEN [pending |-> pending \ {log[k].claim_id},
          results |-> Append(results, log[k].claim_id)]
    ELSE ReleaseScanOne(log, k + 1, pending, results)

RECURSIVE ReleaseScan(_, _, _, _)
\* thinkingUpdates.forEach(...) from entry k on (139-152):
\* addVerificationResult + delete from the pending map
ReleaseScan(log, k, pending, results) ==
    IF k > Len(log) THEN [pending |-> pending, results |-> results]
    ELSE IF Releasable(log[k], pending)
    THEN ReleaseScan(log, k + 1, pending \ {log[k].claim_id},
                     Append(results, log[k].claim_id))
    ELSE ReleaseScan(log, k + 1, pending, results)

\* thinkingUpdates.every(u => u.phase !== 'completed' || u.isDisplayComplete) (155-157)
allThinkingFinished(log) ==
    \A i \in 1..Len(log) : log[i].phase # "completed" \/ log[i].isDisplayComplete

\* 2. Sync Verification Result -> Display, and auto-complete (138-163)
ResultSync(s) ==
    IF s.status \in {"verifying", "completed"}
    THEN LET r        == ReleaseScan(s.thinkingUpdates, 1, s.pendingResults,
                                     s.verificationResults)
             released == r.results # s.verificationResults
             first    == released /\ Len(s.verificationResults) = 0
             auto     == /\ s.status = "completed"
                         /\ allThinkingFinished(s.thinkingUpdates)
                         /\ r.pending = {}
                         /\ s.focusPane # "results"
         IN [s EXCEPT !.pendingResults = r.pending,
                      !.verificationResults = r.results,
                      !.focusPane = IF first \/ auto THEN "results" ELSE s.focusPane]
    ELSE s

Effect(s) == ResultSync(ExtractionSync(s))

\* One commit: the handler left the store/refs as record s; `touched` says the
\* handler assigned thinkingUpdates (a new array identity).  The effect runs
\* when one of its dependencies changed (164); the blocks are reconciled.
Commit(s, touched) ==
    LET deps == \/ touched
                \/ s.status # status
                \/ Len(s.verificationResults) # Len(verificationResults)
        r    == IF deps THEN Effect(s) ELSE s
    IN /\ Len(r.verificationResults) <= MaxResults
       /\ status' = r.status
       /\ statusMessage' = r.statusMessage
       /\ thinkingUpdates' = r.thinkingUpdates
       /\ verificationResults' = r.verificationResults
       /\ focusPane' = r.focusPane
       /\ pendingClaimsRef' = r.pendingClaims
       /\ pendingResultsRef' = r.pendingResults
       /\ blocks' = Render(blocks, r.thinkingUpdates, r.status)
       /\ effectRun' = IF deps
                       THEN [ran |-> TRUE, pending |-> s.pendingResults,
                             results |-> s.verificationResults]
                       ELSE NoRun

\* variant: reset() keeps the results of the finished session
ResetFieldsKeepResults(s) ==
    [s EXCEPT !.thinkingUpdates = <<>>, !.status = "idle", !.statusMessage = ""]

\* reset() of the store (appStore.ts 163-171), on the effect's fields
ResetFields(s) ==
    [s EXCEPT !.thinkingUpdates = <<>>, !.verificationResults = <<>>,
              !.status = "idle", !.statusMessage = ""]

\* ---- session bootstrap (App.tsx 34-55) ----
InitSession ==
    /\ sessionId = NULL
    /\ \/ sessionId' = "s1" /\ UNCHANGED error
       \/ error' = "Failed to connect to server" /\ UNCHANGED sessionId
    /\ UNCHANGED <<focusPane, extractedClaims, selectedClaims, thinkingUpdates,
                   verificationResults, status, statusMessage,
                   pendingClaimsRef, pendingResultsRef, blocks, inflight>>
    /\ effectRun' = NoRun

\* ---- InputPane.handleSubmit (part_001 39-76), up to the await ----
\* The input is non-blank and within the single-fact length limit (40-44).
HandleSubmit(mode) ==
    /\ focusPane = "input"          \* InputPane is rendered (App.tsx 210)
    /\ sessionId # NULL             \* line 40
    /\ InFlightCount < MaxInFlight
    /\ error' = NULL
    /\ extractedClaims' = {}
    /\ selectedClaims' = {}
    /\ inflight' = [inflight EXCEPT ![mode] = @ + 1]
    /\ Commit([ResetFields(Cur) EXCEPT
                  !.status = IF mode = "single" THEN "verifying" ELSE "extracting",
                  !.statusMessage = IF mode = "single"
                                    THEN "Validating fact..."
                                    ELSE "Extracting and validating facts...",
                  !.focusPane = "thinking"], TRUE)
    /\ UNCHANGED sessionId

\* continuation after apiService.verifySingleClaim (55-58, 70-72)
\* out: a claim id (result.result present), "none", or "fail" (the call threw)
SingleResponse(out) ==
    /\ inflight["single"] > 0
    /\ inflight' = [inflight EXCEPT !["single"] = @ - 1]
    /\ IF out = "fail"
       THEN /\ error' = "An error occurred"
            /\ Commit([Cur EXCEPT !.status = "error"], FALSE)
       ELSE /\ UNCHANGED error
            /\ Commit(IF out = "none" THEN Cur
                      ELSE [Cur EXCEPT !.verificationResults = Append(@, out)],
                      FALSE)
    /\ UNCHANGED <<sessionId, extractedClaims, selectedClaims>>

\* continuation after apiService.analyzeText (63-68, 70-72)
\* out: "claims" (result.claims present), "none", or "fail"
BulkResponse(out, claims) ==
    /\ inflight["bulk"] > 0
    /\ inflight' = [inflight EXCEPT !["bulk"] = @ - 1]
    /\ IF out = "fail"
       THEN /\ error' = "An error occurred"
            /\ Commit([Cur EXCEPT !.status = "error"], FALSE)
            /\ UNCHANGED extractedClaims
       ELSE IF out = "none"
       THEN /\ Commit(Cur, FALSE)
            /\ UNCHANGED <<error, extractedClaims>>
       ELSE /\ extractedClaims' = claims
            /\ Commit([Cur EXCEPT !.status = "awaiting_confirmation",
                                  !.statusMessage = "Review and confirm claims"],
                      FALSE)
            /\ UNCHANGED error
    /\ UNCHANGED <<sessionId, selectedClaims>>

\* ---- handleMessage (App.tsx 64-105); the socket exists once the session does ----
\* case 'thinking_update' (66-72)
ThinkingUpdateMsg(update) ==
    /\ sessionId # NULL
    /\ Len(addThinkingUpdate(thinkingUpdates, update)) <= MaxLog
    /\ \A i \in 1..Len(addThinkingUpdate(thinkingUpdates, update)) :
           Len(addThinkingUpdate(thinkingUpdates, update)[i].message) <= MaxAppText
    /\ Commit([Cur EXCEPT
                  !.thinkingUpdates = addThinkingUpdate(thinkingUpdates, update),
                  !.focusPane = IF focusPane # "results" THEN "thinking"
                                ELSE focusPane], TRUE)
    /\ UNCHANGED <<sessionId, extractedClaims, selectedClaims, error, inflight>>

\* case 'verification_result' (74-77): only the ref is written, nothing re-renders
VerificationResultMsg(c) ==
    /\ sessionId # NULL
    /\ pendingResultsRef' = pendingResultsRef \cup {c}
    /\ effectRun' = NoRun
    /\ UNCHANGED <<storeVars, pendingClaimsRef, blocks, inflight>>

\* variant: the handler opens the confirmation itself
ClaimsExtractedMsgCommit(claims) ==
    /\ sessionId # NULL
    /\ pendingClaimsRef' = Ref(claims)
    /\ extractedClaims' = claims
    /\ statusMessage' = "Finishing analysis..."
    /\ status' = "awaiting_confirmation"
    /\ UNCHANGED <<sessionId, focusPane, selectedClaims, thinkingUpdates,
                   verificationResults, error, pendingResultsRef,
                   blocks, inflight>>
    /\ effectRun' = NoRun

\* case 'claims_extracted' (79-83)
ClaimsExtractedMsg(claims) ==
    /\ sessionId # NULL
    /\ pendingClaimsRef' = Ref(claims)
    /\ extractedClaims' = claims
    /\ statusMessage' = "Finishing analysis..."
    /\ UNCHANGED <<sessionId, focusPane, selectedClaims, thinkingUpdates,
                   verificationResults, status, error, pendingResultsRef,
                   blocks, inflight>>
    /\ effectRun' = NoRun

\* case 'status' (85-95); st = NULL: data.status absent; msg = NULL: data.message absent
StatusMsg(st, msg) ==
    /\ sessionId # NULL
    /\ Commit([Cur EXCEPT
                  !.statusMessage = IF msg # NULL THEN msg ELSE st,
                  !.status = IF st # NULL THEN st ELSE status,
                  !.focusPane = IF st \in {"extracting", "verifying"}
                                THEN "thinking" ELSE focusPane], FALSE)
    /\ UNCHANGED <<sessionId, extractedClaims, selectedClaims, error, inflight>>

\* case 'error' (97-100)
ErrorMsg ==
    /\ sessionId # NULL
    /\ error' = "backend error"
    /\ Commit([Cur EXCEPT !.status = "error"], FALSE)
    /\ UNCHANGED <<sessionId, extractedClaims, selectedClaims, inflight>>

\* variant: an unknown message type is treated as an error event
UnknownMsgAsError ==
    /\ sessionId # NULL
    /\ error' = "unknown message"
    /\ Commit([Cur EXCEPT !.status = "error"], FALSE)
    /\ UNCHANGED <<sessionId, extractedClaims, selectedClaims, inflight>>

\* default case (102-103): console.warn only
UnknownMsg ==
    /\ sessionId # NULL
    /\ effectRun' = NoRun
    /\ UNCHANGED <<storeVars, pendingClaimsRef, pendingResultsRef, blocks, inflight>>

\* ---- timers of a mounted ThinkingBlock ----
\* one firing of block i's typewriter interval, then its completion-sync effect
TickBlock(i) ==
    /\ i \in 1..Len(blocks)
    /\ blocks[i].tw.interval
    /\ LET b  == blocks[i]
           t2 == TwTick(b.tw)
       IN blocks' = [blocks EXCEPT ![i] =
                        [b EXCEPT !.tw = t2,
                                  !.timer = SyncTimer(b.timer, b.tw.isComplete, b.dc,
                                                      t2.isComplete, b.dc)]]
    /\ effectRun' = NoRun
    /\ UNCHANGED <<storeVars, pendingClaimsRef, pendingResultsRef, inflight>>

\* block i's 500ms timer fires (part_001 309-311)
TimerFire(i) ==
    /\ i \in 1..Len(blocks)
    /\ blocks[i].timer
    /\ Commit([Cur EXCEPT !.thinkingUpdates =
                  setThinkingDisplayComplete(thinkingUpdates, blocks[i].key[1],
                                             blocks[i].key[2])], TRUE)
    /\ UNCHANGED <<sessionId, extractedClaims, selectedClaims, error, inflight>>

\* ---- user actions ----
\* a tab that is rendered (App.tsx 181-205)
TabShown(pane) ==
    \/ pane = "input"
    \/ pane = "thinking" /\ status # "idle"
    \/ pane = "results" /\ Len(verificationResults) > 0

\* variant: the click is honoured in every status
HandlePaneClickAlways(pane) ==
    /\ TabShown(pane)
    /\ focusPane' = pane
    /\ effectRun' = NoRun
    /\ UNCHANGED <<sessionId, extractedClaims, selectedClaims, thinkingUpdates,
                   verificationResults, status, statusMessage, error,
                   pendingClaimsRef, pendingResultsRef, blocks, inflight>>

\* handlePaneClick (166-171)
HandlePaneClick(pane) ==
    /\ TabShown(pane)
    /\ focusPane' = IF status = "awaiting_confirmation" THEN focusPane ELSE pane
    /\ effectRun' = NoRun
    /\ UNCHANGED <<sessionId, extractedClaims, selectedClaims, thinkingUpdates,
                   verificationResults, status, statusMessage, error,
                   pendingClaimsRef, pendingResultsRef, blocks, inflight>>

\* ResultsPane.handleNewTask (ResultsPane.tsx 10-13); the button is rendered
\* in the results pane once status is completed (68-74)
HandleNewTask ==
    /\ focusPane = "results"
    /\ Len(verificationResults) > 0
    /\ status = "completed"
    /\ extractedClaims' = {}
    /\ selectedClaims' = {}
    /\ error' = NULL
    /\ Commit([ResetFields(Cur) EXCEPT !.focusPane = "input"], TRUE)
    /\ UNCHANGED <<sessionId, inflight>>

\* ClaimConfirmation: select all / deselect all (appStore.ts 94-98),
\* rendered while awaiting confirmation (App.tsx 241-246)
SelectAllClaims ==
    /\ status = "awaiting_confirmation"
    /\ selectedClaims' = extractedClaims
    /\ selectedClaims' # selectedClaims
    /\ effectRun' = NoRun
    /\ UNCHANGED <<sessionId, focusPane, extractedClaims, thinkingUpdates,
                   verificationResults, status, statusMessage, error,
                   pendingClaimsRef, pendingResultsRef, blocks, inflight>>

\* variant: the confirmation is sent whether or not a claim is selected
HandleConfirmUnguarded ==
    /\ status = "awaiting_confirmation"
    /\ sessionId # NULL
    /\ InFlightCount < MaxInFlight
    /\ inflight' = [inflight EXCEPT !["confirm"] = @ + 1]
    /\ Commit([Cur EXCEPT !.status = "verifying",
                          !.statusMessage = "Validating facts..."], FALSE)
    /\ UNCHANGED <<sessionId, extractedClaims, selectedClaims, error>>

\* ClaimConfirmation.handleConfirm (ThinkingPane.tsx 109-124), up to the await
HandleConfirm ==
    /\ status = "awaiting_confirmation"
    /\ sessionId # NULL
    /\ selectedClaims # {}
    /\ InFlightCount < MaxInFlight
    /\ inflight' = [inflight EXCEPT !["confirm"] = @ + 1]
    /\ Commit([Cur EXCEPT !.status = "verifying",
                          !.statusMessage = "Validating facts..."], FALSE)
    /\ UNCHANGED <<sessionId, extractedClaims, selectedClaims, error>>

\* continuation after apiService.confirmClaims (119-123)
ConfirmResponse(ok) ==
    /\ inflight["confirm"] > 0
    /\ inflight' = [inflight EXCEPT !["confirm"] = @ - 1]
    /\ IF ok
       THEN Commit(Cur, FALSE) /\ UNCHANGED error
       ELSE error' = "Failed to verify claims"
            /\ Commit([Cur EXCEPT !.status = "error"], FALSE)
    /\ UNCHANGED <<sessionId, extractedClaims, selectedClaims>>

(***************************************************************************)
(* Inputs and specifications of the application model                      *)
(***************************************************************************)
Native(c, p, m) == Update(c, p, m, TRUE, FALSE, FALSE, FALSE)
Delta(c, p, m)  == Update(c, p, m, FALSE, FALSE, TRUE, FALSE)
Final(c, p, m)  == Update(c, p, m, FALSE, FALSE, FALSE, TRUE)
Plain(c, p, m)  == Update(c, p, m, FALSE, FALSE, FALSE, FALSE)

ClaimSets  == { {"A", "B"} }
SingleOuts == ClaimIds \cup {"none", "fail"}
BulkOuts   == {"claims", "none", "fail"}

\* the variables the application leaves alone
\* field initialisers of the WebSocketClient singleton (13-19); the socket
\* is "none" (null or closed), "connecting" or "open"
WsInitial ==
    [sock |-> "none", sessionId |-> NULL, reconnectAttempts |-> 0,
     handlers |-> {}, timers |-> 0, closing |-> 0, stale |-> 0]

HandlerIds == {"h1", "h2"}

WsFrozen ==
    /\ ws = WsInitial
    /\ delivered = [h \in HandlerIds |-> 0]
    /\ droppedAt = [h \in HandlerIds |-> -1]
    /\ unknownAt = -1

FrozenInit ==
    /\ fed = <<>>
    /\ hist = <<>>
    /\ tw = TwInitial(<<>>, TypeSpeed)
    /\ twChanges = 0
    /\ WsFrozen

Init == AppInit /\ arrOrder = <<>> /\ dcOrder = <<>> /\ FrozenInit

Range(seq) == {seq[i] : i \in 1..Len(seq)}
NoteFirst(seq, x) == IF x \in Range(seq) THEN seq ELSE Append(seq, x)

\* ---- extraction phase: bulk submit, extraction narrative, confirmation ----
ExtractEvents ==
    { Delta(ExtractionId, "extraction", <<"a">>),
      Final(ExtractionId, "extraction", <<"a", "b">>),
      Native(ExtractionId, "extraction", <<"a">>) }

\* status events: <<data.status, data.message>>, either may be absent
ExtractStatusEvents ==
    { <<"extracting", NULL>>, <<"verifying", NULL>>, <<NULL, "backend message">> }

Idle == UNCHANGED <<orderVars, mergeVars, twVars, wsVars>>

TickStep  == \E i \in 1..MaxLog : TickBlock(i) /\ Idle
TimerStep == \E i \in 1..MaxLog : TimerFire(i) /\ Idle

ExtractNext ==
    \/ InitSession /\ Idle
    \/ HandleSubmit("bulk") /\ Idle
    \/ \E out \in BulkOuts, claims \in ClaimSets : BulkResponse(out, claims) /\ Idle
    \/ \E e \in ExtractEvents : ThinkingUpdateMsg(e) /\ Idle
    \/ \E claims \in ClaimSets : ClaimsExtractedMsg(claims) /\ Idle
    \/ \E ev \in ExtractStatusEvents : StatusMsg(ev[1], ev[2]) /\ Idle
    \/ ErrorMsg /\ Idle
    \/ TickStep
    \/ TimerStep
    \/ \E pane \in Panes : HandlePaneClick(pane) /\ Idle
    \/ SelectAllClaims /\ Idle
    \/ HandleConfirm /\ Idle
    \/ \E ok \in BOOLEAN : ConfirmResponse(ok) /\ Idle

SpecExtract == Init /\ [][ExtractNext]_vars

\* Timers that are armed do fire; inbound events and HTTP responses need not come.
SpecExtractFair == SpecExtract /\ WF_vars(TickStep) /\ WF_vars(TimerStep)

\* ---- verification phase: single submit, per-claim narrative, results ----
VerifyEvents ==
    { Plain("A", "completed", <<"a">>),
      Plain("B", "completed", <<"a">>),
      Delta("A", "research", <<"a">>) }

VerifyStatusEvents ==
    { <<"verifying", NULL>>, <<"completed", "All tasks complete">> }

Keep == UNCHANGED <<mergeVars, twVars, wsVars>>

VerifyNext ==
    \/ InitSession /\ Idle
    \/ HandleSubmit("single") /\ arrOrder' = <<>> /\ dcOrder' = <<>> /\ Keep
    \/ \E out \in SingleOuts : SingleResponse(out) /\ Idle
    \/ \E e \in VerifyEvents : ThinkingUpdateMsg(e) /\ Idle
    \/ \E c \in ClaimIds :
          /\ VerificationResultMsg(c)
          /\ arrOrder' = NoteFirst(arrOrder, c)
          /\ UNCHANGED dcOrder
          /\ Keep
    \/ \E ev \in VerifyStatusEvents : StatusMsg(ev[1], ev[2]) /\ Idle
    \/ TickStep
    \/ \E i \in 1..MaxLog :
          /\ TimerFire(i)
          /\ dcOrder' = IF blocks[i].key[2] = "completed"
                        THEN NoteFirst(dcOrder, blocks[i].key[1]) ELSE dcOrder
          /\ UNCHANGED arrOrder
          /\ Keep
    \/ \E pane \in Panes : HandlePaneClick(pane) /\ Idle
    \/ HandleNewTask /\ arrOrder' = <<>> /\ dcOrder' = <<>> /\ Keep

SpecVerify == Init /\ [][VerifyNext]_vars

\* ---- result release alone: websocket events and the blocks' timers ----
ReleaseNext ==
    \/ InitSession /\ Idle
    \/ \E e \in VerifyEvents : ThinkingUpdateMsg(e) /\ Idle
    \/ \E c \in ClaimIds : VerificationResultMsg(c) /\ Idle
    \/ \E ev \in VerifyStatusEvents : StatusMsg(ev[1], ev[2]) /\ Idle
    \/ ErrorMsg /\ Idle
    \/ TickStep
    \/ TimerStep

SpecRelease == Init /\ [][ReleaseNext]_vars

\* ---- one claim whose result may come after its last entry was revealed ----
LateEvents == { Plain("A", "completed", <<"a">>), Delta("A", "research", <<"a">>) }

LateNext ==
    \/ InitSession /\ Idle
    \/ \E e \in LateEvents : ThinkingUpdateMsg(e) /\ Idle
    \/ VerificationResultMsg("A") /\ Idle
    \/ \E ev \in VerifyStatusEvents : StatusMsg(ev[1], ev[2]) /\ Idle
    \/ TickStep
    \/ TimerStep

SpecLate == Init /\ [][LateNext]_vars

\* Timers that are armed do fire; inbound events need not come.
SpecLateFair == SpecLate /\ WF_vars(TickStep) /\ WF_vars(TimerStep)

\* ---- reveal of one refined narrative: snapshots that grow, change and
\* ---- shrink, a final snapshot, and an entry of another claim
RevealEvents ==
    { Delta("A", "research", <<"a">>),
      Delta("A", "research", <<"a", "b">>),
      Delta("A", "research", <<"b">>),
      Final("A", "research", <<"a", "b">>),
      Plain("B", "research", <<"a">>) }

RevealNext ==
    \/ InitSession /\ Idle
    \/ StatusMsg("verifying", NULL) /\ Idle
    \/ \E e \in RevealEvents : ThinkingUpdateMsg(e) /\ Idle
    \/ TickStep
    \/ TimerStep

SpecReveal == Init /\ [][RevealNext]_vars

\* ---- sessions one after another: single submit, one narrative entry, its
\* ---- result over both channels, completion, and "new task"
SessionEvents == { Plain("A", "completed", <<"a">>) }

SessionNext ==
    \/ InitSession /\ Idle
    \/ HandleSubmit("single") /\ Idle
    \/ \E out \in SingleOuts : SingleResponse(out) /\ Idle
    \/ \E e \in SessionEvents : ThinkingUpdateMsg(e) /\ Idle
    \/ \E c \in ClaimIds : VerificationResultMsg(c) /\ Idle
    \/ StatusMsg("completed", "All tasks complete") /\ Idle
    \/ ErrorMsg /\ Idle
    \/ TickStep
    \/ TimerStep
    \/ \E pane \in Panes : HandlePaneClick(pane) /\ Idle
    \/ HandleNewTask /\ Idle

SpecSession == Init /\ [][SessionNext]_vars

\* ---- navigation: both submit modes with their HTTP responses, status and
\* ---- error events, confirmation, and the user selecting panes
NavigateStatusEvents ==
    { <<"extracting", NULL>>, <<"verifying", NULL>>,
      <<"completed", "All tasks complete">> }

NavigateNext ==
    \/ InitSession /\ Idle
    \/ \E mode \in {"single", "bulk"} : HandleSubmit(mode) /\ Idle
    \/ \E out \in SingleOuts : SingleResponse(out) /\ Idle
    \/ \E out \in BulkOuts, claims \in ClaimSets : BulkResponse(out, claims) /\ Idle
    \/ \E ev \in NavigateStatusEvents : StatusMsg(ev[1], ev[2]) /\ Idle
    \/ ErrorMsg /\ Idle
    \/ \E pane \in Panes : HandlePaneClick(pane) /\ Idle
    \/ SelectAllClaims /\ Idle
    \/ HandleConfirm /\ Idle
    \/ \E ok \in BOOLEAN : ConfirmResponse(ok) /\ Idle
    \/ HandleNewTask /\ Idle

SpecNavigate == Init /\ [][NavigateNext]_vars

\* ---- every kind of inbound websocket message during an extraction, with
\* ---- the timers; unknownAt notes the log length at a message of unknown type
InboundStatusEvents == { <<"extracting", NULL>>, <<NULL, "backend message">> }

InboundEvents ==
    { Final(ExtractionId, "extraction", <<"a">>),
      Delta("A", "completed", <<"a">>) }

InboundNext ==
    \/ InitSession /\ Idle
    \/ \E ev \in InboundStatusEvents : StatusMsg(ev[1], ev[2]) /\ Idle
    \/ \E e \in InboundEvents : ThinkingUpdateMsg(e) /\ Idle
    \/ \E claims \in ClaimSets : ClaimsExtractedMsg(claims) /\ Idle
    \/ VerificationResultMsg("A") /\ Idle
    \/ ErrorMsg /\ Idle
    \/ /\ UnknownMsg
       /\ unknownAt' = Len(thinkingUpdates)
       /\ UNCHANGED <<orderVars, mergeVars, twVars, ws, delivered, droppedAt>>
    \/ TickStep
    \/ TimerStep

SpecInbound == Init /\ [][InboundNext]_vars

(***************************************************************************)
(* Properties of the commit controller                                     *)
(***************************************************************************)
\* the extraction narrative's final entry has been revealed and the 500ms
\* delay has run (ThinkingBlock then marks it isDisplayComplete)
ExtractionShown(log) ==
    \E i \in 1..Len(log) :
        /\ log[i].claim_id = ExtractionId
        /\ log[i].is_streaming_complete
        /\ log[i].isDisplayComplete

\* a 'completed'-phase entry of claim c is isDisplayComplete
CompletedShown(log, c) ==
    \E i \in 1..Len(log) :
        /\ log[i].claim_id = c
        /\ log[i].phase = "completed"
        /\ log[i].isDisplayComplete

\* C1: status becomes 'awaiting_confirmation' only in a step after which the
\* extraction entry (claim_id 'extraction_thinking', is_streaming_complete) is
\* isDisplayComplete, that is, fully revealed with the 500ms delay elapsed.
\* (The code has no safety timeout that could open the confirmation instead.)
C1_ConfirmAfterReveal ==
    [][(status' = "awaiting_confirmation" /\ status # "awaiting_confirmation")
          => ExtractionShown(thinkingUpdates')]_vars

\* C2: whenever claims are buffered while status is 'extracting', the
\* application eventually leaves that state: status becomes
\* 'awaiting_confirmation' (by the safety timeout if the extraction entry is
\* never shown); every other way out (the entry is shown, the status changes,
\* the buffer is cleared) is granted.
C2_SafetyTimeout ==
    [](/\ status = "extracting"
       /\ pendingClaimsRef # NullRef
       => <>(\/ status # "extracting"
             \/ pendingClaimsRef = NullRef
             \/ ExtractionShown(thinkingUpdates)))

\* C3: a verification_result event (the pending map grows) leaves
\* verificationResults unchanged, and every result a step adds to
\* verificationResults has a 'completed'-phase entry with its claim_id that is
\* isDisplayComplete when the step ends.
C3_ResultsGated ==
    [][/\ (pendingResultsRef' # pendingResultsRef
            /\ pendingResultsRef \subseteq pendingResultsRef')
          => verificationResults' = verificationResults
       /\ \A n \in 1..Len(verificationResults') :
            n > Len(verificationResults)
              => CompletedShown(thinkingUpdates', verificationResults'[n])]_vars

\* position of the first x in a sequence that holds it
Pos(seq, x) == CHOOSE n \in 1..Len(seq) : seq[n] = x /\ \A m \in 1..(n - 1) : seq[m] # x
Before(seq, x, y) ==
    x \in Range(seq) /\ y \in Range(seq) /\ Pos(seq, x) < Pos(seq, y)

\* C4: for claims a and b of one task, if b's verification_result arrived
\* before a's and a's 'completed' entry became isDisplayComplete before b's,
\* then, once both results are released, a's is before b's in
\* verificationResults.
C4_DisplayOrder ==
    \A a \in ClaimIds : \A b \in ClaimIds :
        (/\ Before(arrOrder, b, a)
         /\ Before(dcOrder, a, b)
         /\ pendingResultsRef = {}
         /\ a \in Range(verificationResults)
         /\ b \in Range(verificationResults))
        => Before(verificationResults, a, b)

\* C5: after a run of the effect with status 'verifying' or 'completed', the
\* claim ids that were pending with a 'completed' isDisplayComplete entry are
\* all gone from the pending map, none that remains is eligible, and
\* verificationResults is what it was followed by each released id exactly once.
C5_ScanReleasesAll ==
    (effectRun.ran /\ status \in {"verifying", "completed"}) =>
        LET rel  == {c \in effectRun.pending : CompletedShown(thinkingUpdates, c)}
            was  == Len(effectRun.results)
        IN /\ pendingResultsRef = effectRun.pending \ rel
           /\ \A c \in pendingResultsRef : ~CompletedShown(thinkingUpdates, c)
           /\ Len(verificationResults) = was + Cardinality(rel)
           /\ SubSeq(verificationResults, 1, was) = effectRun.results
           /\ \A c \in rel :
                Cardinality({n \in (was + 1)..Len(verificationResults) :
                                 verificationResults[n] = c}) = 1

\* one run of the scan released two results
C5_Witness ==
    /\ effectRun.ran
    /\ status \in {"verifying", "completed"}
    /\ Cardinality(effectRun.pending \ pendingResultsRef) = 2
    /\ Len(verificationResults) = Len(effectRun.results) + 2

(***************************************************************************)
(* Properties of the reveal of timeline entries                            *)
(***************************************************************************)
\* position among the displayed entries of log entry k (a displayed entry)
DisplayPos(log, k) == Cardinality({j \in 1..k : ~log[j].is_native_thought})

\* entry k is the only entry of its (claim_id, phase) in the log
OnlyOfPair(log, k) == PairCount(log, log[k]) = 1

\* the entry's content, the stored completion flag aside
Content(u) == [u EXCEPT !.isDisplayComplete = FALSE]

ResetStore ==
    /\ thinkingUpdates = <<>>
    /\ verificationResults = <<>>
    /\ extractedClaims = {}
    /\ selectedClaims = {}
    /\ error = NULL

\* C12: reset() yields status idle, an empty log, no results, no extracted
\* and no selected claims and a null error.  reset() has two callers: after
\* handleNewTask the store is exactly that; after handleSubmit, which goes on
\* to set the status of the new session, every field but status is.
C12_ResetStore ==
    [][/\ HandleNewTask => (status' = "idle" /\ ResetStore')
       /\ (\E mode \in {"single", "bulk"} : HandleSubmit(mode)) => ResetStore']_vars

\* handleNewTask has reset a session whose single-fact request is still open
C12_Witness ==
    /\ status = "idle"
    /\ ResetStore
    /\ focusPane = "input"
    /\ inflight["single"] > 0

\* C13: reset() empties both pending buffers: after "new task" has reset the
\* session, pendingClaimsRef is null and pendingResultsRef is empty, so
\* nothing buffered before the reset is left for the next session.
C13_ResetClearsBuffers ==
    [][HandleNewTask
          => (pendingClaimsRef' = NullRef /\ pendingResultsRef' = {})]_vars

\* C14: after reset() nothing started before it mutates the store: in the
\* reset state (status idle, the reset fields at their initial values) a
\* typewriter tick, a 500ms timer or the continuation of an HTTP request
\* leaves status, log, results, claims and error as they are.
C14_NoStaleContinuation ==
    [][(/\ status = "idle"
        /\ ResetStore
        /\ \/ TickStep
           \/ TimerStep
           \/ \E out \in SingleOuts : SingleResponse(out))
          => UNCHANGED <<status, thinkingUpdates, verificationResults,
                         extractedClaims, selectedClaims, error>>]_vars

(***************************************************************************)
(* Properties of status and focus                                          *)
(***************************************************************************)
\* C15: an 'error' event sets status to error from any state, and error is
\* terminal: with no reset() in between (SpecRelease has none) every inbound
\* event leaves status at error.
C15_ErrorTerminal ==
    [][/\ ErrorMsg => status' = "error"
       /\ status = "error" => status' = "error"]_vars

\* the order of the session statuses
Rank(st) ==
    CASE st = "idle" -> 0
      [] st = "extracting" -> 1
      [] st = "awaiting_confirmation" -> 2
      [] st = "verifying" -> 3
      [] st = "completed" -> 4
      [] OTHER -> 5

\* C16: between two resets (SpecRelease has none) status only advances along
\* idle < extracting < awaiting_confirmation < verifying < completed; error
\* may be entered from anywhere.
C16_StatusMonotone ==
    [][(status # "error" /\ status' # "error")
          => Rank(status') >= Rank(status)]_vars

\* C17: while status is error no automatic rule moves the focus: a step
\* that is not a manual pane selection (SpecRelease has none) and that starts
\* and ends in status error leaves focusPane unchanged.
C17_ErrorKeepsFocus ==
    [][(status = "error" /\ status' = "error") => focusPane' = focusPane]_vars

\* the log holds a completed-phase entry
HasCompleted(log) == \E i \in 1..Len(log) : log[i].phase = "completed"

\* C18: finalize.  Once the effect has run with status verifying or completed,
\* a completed-phase entry in the log, every completed-phase entry
\* display-complete and no result pending, status is completed and the focus
\* is on the results.
C18_Finalize ==
    (/\ effectRun.ran
     /\ status \in {"verifying", "completed"}
     /\ HasCompleted(thinkingUpdates)
     /\ allThinkingFinished(thinkingUpdates)
     /\ pendingResultsRef = {})
        => (status = "completed" /\ focusPane = "results")

\* the finalize rule has put the focus on the results (App.tsx 154-163)
Finalized ==
    /\ status = "completed"
    /\ allThinkingFinished(thinkingUpdates)
    /\ pendingResultsRef = {}
    /\ focusPane = "results"

\* C19: the step that takes verificationResults from empty to non-empty ends
\* with the focus on the results; a step that adds a result to a non-empty
\* list leaves focusPane as it was (the focus rule of a thinking_update or
\* status event handled in the same step and the finalize rule aside).
C19_FirstReleaseFocus ==
    [][/\ (Len(verificationResults) = 0 /\ Len(verificationResults') > 0)
            => focusPane' = "results"
       /\ (/\ Len(verificationResults) > 0
           /\ Len(verificationResults') > Len(verificationResults)
           /\ ~(\E e \in VerifyEvents : ThinkingUpdateMsg(e))
           /\ ~(\E ev \in VerifyStatusEvents : StatusMsg(ev[1], ev[2])))
            => (focusPane' = focusPane \/ Finalized')]_vars

\* C20: handlePaneClick leaves focusPane unchanged while status is
\* awaiting_confirmation and sets it to the selected pane in every other
\* status; it changes nothing else in the store.
C20_PaneClick ==
    [][\A pane \in Panes :
          HandlePaneClick(pane)
             => /\ status = "awaiting_confirmation" => focusPane' = focusPane
                /\ status # "awaiting_confirmation" => focusPane' = pane
                /\ UNCHANGED <<status, thinkingUpdates, verificationResults,
                               extractedClaims, selectedClaims>>]_vars

\* awaiting confirmation with the focus on the thinking pane and the input tab
\* shown: a click on that tab is possible here and is refused
C20_Witness ==
    /\ status = "awaiting_confirmation"
    /\ focusPane = "thinking"
    /\ TabShown("input")
    /\ ~effectRun.ran

\* C21: the automatic moves of the focus to the thinking pane never take it
\* from the results: no step of an inbound event or timer (SpecRelease has no
\* manual pane selection) that starts with results shown and focusPane
\* results ends with focusPane thinking.
C21_ResultsKeepFocus ==
    [][(focusPane = "results" /\ Len(verificationResults) > 0)
          => focusPane' # "thinking"]_vars

(***************************************************************************)
(* Properties of the inbound message handler                               *)
(***************************************************************************)
\* C22: a message of an unknown type is ignored: the log, both pending
\* buffers, status, statusMessage, results, claims and focusPane are
\* unchanged by the step that handles it.
C22_UnknownIgnored ==
    [][UnknownMsg
          => UNCHANGED <<thinkingUpdates, pendingClaimsRef, pendingResultsRef,
                         status, statusMessage, verificationResults,
                         extractedClaims, selectedClaims, focusPane>>]_vars

\* a thinking_update was merged after a message of unknown type was handled:
\* later messages are still processed
C22_Witness ==
    /\ unknownAt >= 0
    /\ Len(thinkingUpdates) > unknownAt

\* C24: handling a claims_extracted event stores the claim set in
\* pendingClaimsRef and sets statusMessage to 'Finishing analysis...'; status,
\* the log, the results and focusPane are unchanged, so the handler never
\* sets status to awaiting_confirmation.
C24_ClaimsBuffered ==
    [][\A claims \in ClaimSets :
          ClaimsExtractedMsg(claims)
             => /\ pendingClaimsRef' = Ref(claims)
                /\ statusMessage' = "Finishing analysis..."
                /\ UNCHANGED <<status, thinkingUpdates, verificationResults,
                               focusPane>>]_vars

\* the claim set is buffered during the extraction, status still extracting
C24_Witness ==
    /\ status = "extracting"
    /\ pendingClaimsRef # NullRef
    /\ extractedClaims # {}
    /\ statusMessage = "Finishing analysis..."

\* C25: the extraction transition.  A step that takes status from
\* extracting to awaiting_confirmation (in SpecInbound only the effect does)
\* starts with a claim set in pendingClaimsRef, ends with the final
\* extraction entry display-complete and with pendingClaimsRef null: one
\* buffered claim set causes the transition at most once.
C25_TransitionClearsBuffer ==
    [][(status = "extracting" /\ status' = "awaiting_confirmation")
          => /\ pendingClaimsRef # NullRef
             /\ pendingClaimsRef' = NullRef
             /\ ExtractionShown(thinkingUpdates')
             /\ statusMessage' = "Review and confirm claims"]_vars

\* the effect has just committed the transition: confirmation open, claims
\* surfaced, buffer cleared
C25_Witness ==
    /\ effectRun.ran
    /\ status = "awaiting_confirmation"
    /\ extractedClaims # {}
    /\ pendingClaimsRef = NullRef
    /\ ExtractionShown(thinkingUpdates)

\* C34: at most one mounted block is the paced one, and it is the block of
\* the last displayed entry; every other block gets its text in one step:
\* whenever the display of an unpaced block changes while its target text
\* stays the same, it changes to the whole target text.
C34_OthersInstant ==
    /\ [](\A i \in 1..Len(blocks) :
             blocks[i].tw.speed = TypeSpeed <=> i = Len(blocks))
    /\ [][\A i \in 1..Len(blocks) :
             ( /\ i <= Len(blocks')
               /\ blocks'[i].key = blocks[i].key
               /\ blocks'[i].tw.speed = InstantSpeed
               /\ blocks'[i].tw.text = blocks[i].tw.text
               /\ blocks'[i].tw.displayedText # blocks[i].tw.displayedText )
             => blocks'[i].tw.displayedText = blocks'[i].tw.text]_vars

\* C35: verificationResults never holds two results of the same claim.
C35_OneResultPerClaim ==
    \A i, j \in 1..Len(verificationResults) :
        verificationResults[i] = verificationResults[j] => i = j

\* a result of claim c waits in the pending map although everything its
\* release needs is there: status 'verifying' or 'completed' and the
\* 'completed'-phase entry of c isDisplayComplete
ReadyPending(c) ==
    /\ status \in {"verifying", "completed"}
    /\ c \in pendingResultsRef
    /\ CompletedShown(thinkingUpdates, c)

\* C36: a result that is pending while status is 'verifying' or 'completed'
\* and the 'completed'-phase entry of its claim is isDisplayComplete is
\* eventually released (taken out of the pending map into
\* verificationResults), whether or not another event arrives; leaving the
\* two statuses is granted as a way out.
C36_PendingResultReleased ==
    \A c \in ClaimIds : ReadyPending(c) ~> ~ReadyPending(c)

\* C39: handleConfirm acts only with a session and at least one selected
\* claim: without them no step sends a confirmation request.  When it acts,
\* status is 'verifying' by the time the request is in flight, and a request
\* that fails leaves status 'error' with an error message set.
C39_ConfirmGuarded ==
    [][/\ HandleConfirm
          => /\ sessionId # NULL /\ selectedClaims # {}
             /\ status' = "verifying"
             /\ inflight'["confirm"] = inflight["confirm"] + 1
       /\ (sessionId = NULL \/ selectedClaims = {})
          => inflight'["confirm"] <= inflight["confirm"]
       /\ ConfirmResponse(FALSE)
          => status' = "error" /\ error' # NULL]_vars

\* a confirmation of selected claims was sent and has failed
C39_Witness ==
    /\ status = "error"
    /\ error = "Failed to verify claims"
    /\ selectedClaims # {}
    /\ inflight["confirm"] = 0

(***************************************************************************)
(* MERGE LOG specification: events merged one by one into an empty log     *)
(***************************************************************************)
MaxEvents == 3    \* events merged in one behaviour

MergePairs == { <<"A", "research">>, <<"A", "completed">>, <<"B", "research">> }
MergeTexts == { <<"a">>, <<"b">> }

\* flag combinations <<is_native_thought, is_refined, is_delta, is_streaming_complete>>
EventShapes ==
    { <<TRUE,  FALSE, FALSE, FALSE>>,     \* raw-channel fragment
      <<FALSE, FALSE, TRUE,  FALSE>>,     \* snapshot
      <<FALSE, FALSE, FALSE, TRUE>>,      \* final snapshot
      <<FALSE, FALSE, TRUE,  TRUE>>,      \* final snapshot, still flagged delta
      <<FALSE, TRUE,  FALSE, FALSE>>,     \* refined
      <<FALSE, FALSE, FALSE, FALSE>>,     \* no flag
      <<TRUE,  FALSE, TRUE,  FALSE>> }    \* fragment flagged delta

MergeEvents ==
    { Update(pr[1], pr[2], m, sh[1], sh[2], sh[3], sh[4]) :
          pr \in MergePairs, m \in MergeTexts, sh \in EventShapes }

\* one call of addThinkingUpdate; fed and hist record the call and its outcome
Merge(e) ==
    /\ Len(fed) < MaxEvents
    /\ thinkingUpdates' = addThinkingUpdate(thinkingUpdates, e)
    /\ fed' = Append(fed, e)
    /\ hist' = Append(hist, thinkingUpdates')
    /\ UNCHANGED <<sessionId, focusPane, extractedClaims, selectedClaims,
                   verificationResults, status, statusMessage, error,
                   pendingClaimsRef, pendingResultsRef, blocks, inflight,
                   effectRun, orderVars, twVars, wsVars>>

MergeNext == \E e \in MergeEvents : Merge(e)

MergeSpec == Init /\ [][MergeNext]_vars

\* the log before the k-th merged event
LogBefore(k) == IF k = 1 THEN <<>> ELSE hist[k - 1]

\* indices of the entries of a log that carry the event's (claim_id, phase)
PairIdx(log, e) == {n \in 1..Len(log) : SamePair(log[n], e)}

\* events i..j are raw-channel fragments (is_native_thought, no snapshot flag)
\* of one (claim_id, phase), merged one after another
NativeRun(i, j) ==
    \A k \in i..j :
        /\ fed[k].is_native_thought
        /\ ~fed[k].is_delta
        /\ ~fed[k].is_streaming_complete
        /\ SamePair(fed[k], fed[i])

\* what the entry held before fragment i was merged: nothing if i opened it
TextBefore(i) ==
    IF Len(hist[i]) = Len(LogBefore(i)) THEN Last(LogBefore(i)).message ELSE <<>>

\* C6: for every run of native-thought fragments of one (claim_id, phase)
\* merged one after another, the last entry's message is the ordered
\* concatenation of the fragments' messages (after whatever the entry held
\* when the run began), and the log is as long after the N-th fragment as
\* after the first.
C6_NativeConcat ==
    \A i \in 1..Len(fed) : \A j \in i..Len(fed) :
        NativeRun(i, j) =>
            /\ Len(hist[j]) = Len(hist[i])
            /\ SamePair(Last(hist[j]), fed[i])
            /\ Last(hist[j]).message =
                   TextBefore(i) \o Flatten([k \in 1..(j - i + 1) |-> fed[i + k - 1].message])

\* a run of two fragments with different texts, the first opening the entry
\* behind an entry of another kind
C6_Witness ==
    \E i \in 1..Len(fed) : \E j \in 1..Len(fed) :
        /\ 1 < i /\ i < j
        /\ NativeRun(i, j)
        /\ Len(hist[i]) = Len(LogBefore(i)) + 1
        /\ fed[i].message # fed[j].message

\* events i..j are a snapshot sequence on the pair of event i: the pair has no
\* entry before i, every event of the pair before j is an is_delta snapshot,
\* event j is the final snapshot; none is a raw-channel fragment
SnapshotRun(i, j) ==
    /\ i < j
    /\ PairIdx(LogBefore(i), fed[i]) = {}
    /\ SamePair(fed[j], fed[i])
    /\ fed[j].is_streaming_complete /\ ~fed[j].is_native_thought
    /\ \A k \in i..(j - 1) :
           SamePair(fed[k], fed[i]) => fed[k].is_delta /\ ~fed[k].is_native_thought

\* C7: after a snapshot sequence (one or more is_delta snapshots, then the
\* final is_streaming_complete snapshot) merged into a log without an entry for
\* the pair, the log has exactly one entry for the pair; its message is the
\* final snapshot and its is_streaming_complete is true.
C7_SnapshotReplace ==
    \A i \in 1..Len(fed) : \A j \in 1..Len(fed) :
        SnapshotRun(i, j) =>
            /\ Cardinality(PairIdx(hist[j], fed[i])) = 1
            /\ \A n \in PairIdx(hist[j], fed[i]) :
                   /\ hist[j][n].message = fed[j].message
                   /\ hist[j][n].is_streaming_complete

\* two snapshots and a final one with another text
C7_Witness ==
    /\ Len(fed) = 3
    /\ SnapshotRun(1, 3)
    /\ SamePair(fed[2], fed[1])
    /\ ~fed[1].is_streaming_complete /\ ~fed[2].is_streaming_complete
    /\ fed[3].message # fed[2].message

\* C8: merging an event whose (claim_id, phase) has no entry in the log
\* appends it: the new log is the old log followed by the event, so the length
\* grows by one, the new entry is last and no existing entry changes.
C8_NewPairAppends ==
    [][(fed' # fed /\ PairIdx(thinkingUpdates, Last(fed')) = {})
          => thinkingUpdates' = Append(thinkingUpdates, Last(fed'))]_vars

\* a snapshot-flagged event of a new phase was appended behind a snapshot entry
\* of the same claim
C8_Witness ==
    /\ Len(fed) >= 2
    /\ PairIdx(LogBefore(Len(fed)), Last(fed)) = {}
    /\ Last(fed).is_delta
    /\ \E n \in 1..Len(LogBefore(Len(fed))) :
           /\ LogBefore(Len(fed))[n].claim_id = Last(fed).claim_id
           /\ LogBefore(Len(fed))[n].is_delta
    /\ thinkingUpdates = Append(LogBefore(Len(fed)), Last(fed))

\* entries of the log that carry the pair of e and are tagged delta or refined
TaggedOfPair(log, e) ==
    {n \in 1..Len(log) : SamePair(log[n], e) /\ (log[n].is_delta \/ log[n].is_refined)}

\* C26: in every reachable log each (claim_id, phase) pair has at most one
\* entry tagged is_delta or is_refined.
C26_OneRefinedPerPair ==
    \A n \in 1..Len(thinkingUpdates) :
        Cardinality(TaggedOfPair(thinkingUpdates, thinkingUpdates[n])) <= 1

\* the event is a snapshot of the refined channel
Snapshot(e) == e.is_delta \/ e.is_streaming_complete

\* C27: once a snapshot (is_delta or is_streaming_complete) has been merged
\* for a pair, a later snapshot of that pair replaces in place: merging it
\* does not raise the number of entries of the pair.  (The claim says so of
\* every later event of the pair; the snapshots are the least it asks.)
C27_SnapshotsReplaceForever ==
    \A k \in 1..Len(fed) : \A j \in (k + 1)..Len(fed) :
        (Snapshot(fed[k]) /\ Snapshot(fed[j]) /\ SamePair(fed[k], fed[j]))
           => PairCount(hist[j], fed[j]) <= PairCount(LogBefore(j), fed[j])

\* events of the two channels: a raw fragment, a delta snapshot
NativeEvent(e) ==
    e.is_native_thought /\ ~e.is_delta /\ ~e.is_refined /\ ~e.is_streaming_complete
DeltaEvent(e) ==
    e.is_delta /\ ~e.is_native_thought /\ ~e.is_refined /\ ~e.is_streaming_complete

\* C28: when the events merged for a pair are native-thought events and delta
\* events, at least one of each and in any order, the log holds exactly one
\* native-thought entry and exactly one delta entry of that pair.
C28_ChannelsCoexist ==
    \A pr \in MergePairs :
        LET mine == {k \in 1..Len(fed) :
                        fed[k].claim_id = pr[1] /\ fed[k].phase = pr[2]}
            ents == {n \in 1..Len(thinkingUpdates) :
                        /\ thinkingUpdates[n].claim_id = pr[1]
                        /\ thinkingUpdates[n].phase = pr[2]}
        IN (/\ \A k \in mine : NativeEvent(fed[k]) \/ DeltaEvent(fed[k])
            /\ \E k \in mine : NativeEvent(fed[k])
            /\ \E k \in mine : DeltaEvent(fed[k]))
              => /\ Cardinality({n \in ents : thinkingUpdates[n].is_native_thought}) = 1
                 /\ Cardinality({n \in ents : thinkingUpdates[n].is_delta}) = 1

\* the entries at which two logs of equal length differ
Changed(before, after) == {n \in 1..Len(before) : after[n] # before[n]}

\* text s ends with text t
EndsWith(s, t) ==
    Len(t) <= Len(s) /\ SubSeq(s, Len(s) - Len(t) + 1, Len(s)) = t

\* C29: no call of addThinkingUpdate rejects or drops its event.  Each call
\* either appends the event as the last entry, all earlier entries untouched,
\* or keeps the length and touches at most one entry, at its index, which
\* afterwards is the event itself (replace) or the old entry with the event's
\* text at the end of its text (concatenate).  The log never shrinks.
C29_MergeNeverDrops ==
    \A k \in 1..Len(fed) :
        LET before == LogBefore(k)
            after  == hist[k]
            e      == fed[k]
        IN \/ after = Append(before, e)
           \/ /\ Len(after) = Len(before)
              /\ Cardinality(Changed(before, after)) <= 1
              /\ \E n \in 1..Len(after) :
                    /\ Changed(before, after) \subseteq {n}
                    /\ \/ after[n] = e
                       \/ /\ after[n] = [before[n] EXCEPT !.message = after[n].message]
                          /\ Len(after[n].message) =
                                Len(before[n].message) + Len(e.message)
                          /\ EndsWith(after[n].message, e.message)

\* three calls: the first appended, the second changed that entry in place,
\* the third appended again
C29_Witness ==
    /\ Len(fed) = 3
    /\ Len(hist[1]) = 1
    /\ Len(hist[2]) = 1
    /\ hist[2] # hist[1]
    /\ Len(hist[3]) = 2
    /\ hist[3][1] = hist[2][1]

(***************************************************************************)
(* REVEAL SCHEDULER specification: one mounted useTypewriter instance      *)
(***************************************************************************)
MaxTextLen == 2    \* letters in a target text
MaxChanges == 3    \* re-renders with new props in one behaviour

Texts  == UNION {[1..n -> {"a", "b"}] : n \in 0..MaxTextLen}
Speeds == {InstantSpeed, TypeSpeed}

TwInit ==
    /\ AppInit
    /\ arrOrder = <<>> /\ dcOrder = <<>>
    /\ fed = <<>> /\ hist = <<>>
    /\ WsFrozen
    /\ twChanges = 0
    /\ \E text \in Texts, speed \in Speeds : tw = TwMount(text, speed)

\* a re-render with a new text and/or speed: the effects with changed deps run
TwSetProps(text, speed) ==
    /\ twChanges < MaxChanges
    /\ text # tw.text \/ speed # tw.speed
    /\ tw' = TwEffect(tw, text, speed)
    /\ twChanges' = twChanges + 1
    /\ UNCHANGED <<appVars, orderVars, mergeVars, wsVars>>

\* the interval fires
TwTickStep ==
    /\ tw.interval
    /\ tw' = TwTick(tw)
    /\ UNCHANGED <<twChanges, appVars, orderVars, mergeVars, wsVars>>

TwNext ==
    \/ \E text \in Texts, speed \in Speeds : TwSetProps(text, speed)
    \/ TwTickStep

TwSpec == TwInit /\ [][TwNext]_vars

\* setInterval keeps firing while the interval is live
TwFairSpec == TwSpec /\ WF_vars(TwTickStep)

\* C9: a step (tick or props change) that does not shorten the target text
\* never moves the reveal position or the displayed length backwards.
C9_RevealMonotone ==
    [][Len(tw'.text) >= Len(tw.text)
          => /\ tw'.index >= tw.index
             /\ Len(tw'.displayedText) >= Len(tw.displayedText)]_vars

\* the text was changed under a partly or fully revealed display, which kept
\* its position: the displayed letters are those of the earlier text
C9_Witness ==
    /\ twChanges > 0
    /\ tw.index > 0
    /\ Len(tw.displayedText) = tw.index
    /\ tw.displayedText # SubSeq(tw.text, 1, tw.index)

\* C10: with the interval firing fairly, once the target text stays at one
\* non-empty value the reveal reaches its full length, isComplete is true,
\* and the interval is cleared (no tick is enabled any more).
C10_RevealCompletes ==
    \A txt \in Texts \ {<<>>} :
        <>[](tw.text = txt)
            => <>[](/\ tw.isComplete
                    /\ tw.index = Len(txt)
                    /\ Len(tw.displayedText) = Len(txt)
                    /\ ~tw.interval)

\* a two-letter text, set after the mount, fully revealed and reported complete
C10_Witness ==
    /\ twChanges > 0
    /\ Len(tw.text) >= 2
    /\ tw.displayedText = tw.text
    /\ tw.isComplete
    /\ ~tw.interval

\* C30: a typewriter whose target text is, or has become, empty is complete
\* at once: isComplete is true, nothing is displayed and no interval runs.
C30_EmptyTextComplete ==
    Len(tw.text) = 0
       => (tw.isComplete /\ tw.displayedText = <<>> /\ ~tw.interval)

C32_HardResetIff ==
    [][tw'.text # tw.text
          => IF Len(tw'.text) = 0 \/ Len(tw'.text) < tw.index
             THEN /\ tw'.index = 0
                  /\ tw'.displayedText = <<>>
                  /\ ~tw'.isComplete
             ELSE /\ tw'.index = tw.index
                  /\ tw'.displayedText = tw.displayedText
                  /\ tw'.interval <=> tw.index < Len(tw'.text)
                  /\ tw'.isComplete <=> tw.index = Len(tw'.text)]_vars

\* the position was kept over a text change: one letter is displayed, it is
\* not the first letter of the current two-letter text, and the reveal goes on
C32_Witness ==
    /\ Len(tw.text) = 2
    /\ tw.index = 1
    /\ tw.displayedText # SubSeq(tw.text, 1, 1)
    /\ tw.interval

\* C33: whenever the typewriter reports isComplete, the text it displays is
\* the whole current target text, also after the target was replaced by a
\* different text of the same or a smaller length.
C33_CompleteShowsTarget ==
    tw.isComplete => tw.displayedText = tw.text

(***************************************************************************)
(* WEBSOCKET CLIENT specification  (services/WebSocketClient.ts)           *)
(* ws.sock is the socket held in this.ws: "none" (null or closed),         *)
(* "connecting" or "open".  ws.stale counts sockets that connect() replaced *)
(* while they were live, ws.closing the sockets closed by disconnect()     *)
(* whose close event is still to come, ws.timers the reconnect timeouts    *)
(* that are pending.                                                       *)
(***************************************************************************)
MaxReconnectAttempts == 5   \* maxReconnectAttempts (18)
MaxDelivered == 2           \* messages a handler is notified of
MaxSockets == 1             \* replaced sockets, pending close events, timers

Payloads == {"bad", "message"}   \* event.data: unparseable, or a JSON message

Live(sock) == sock \in {"connecting", "open"}

\* connect(sessionId) (21-52): a new socket replaces this.ws
connect(w, sid) ==
    [w EXCEPT !.sessionId = sid,
              !.sock = "connecting",
              !.stale = IF Live(w.sock) THEN @ + 1 ELSE @]

\* variant: one attempt more than maxReconnectAttempts
attemptReconnectOneMore(w) ==
    IF w.reconnectAttempts <= MaxReconnectAttempts /\ w.sessionId # NULL
    THEN [w EXCEPT !.reconnectAttempts = @ + 1, !.timers = @ + 1]
    ELSE w

\* attemptReconnect() (54-65)
attemptReconnect(w) ==
    IF w.reconnectAttempts < MaxReconnectAttempts /\ w.sessionId # NULL
    THEN [w EXCEPT !.reconnectAttempts = @ + 1, !.timers = @ + 1]
    ELSE w

\* notifyHandlers(message) (84-92): every registered handler is called
notifyHandlers(d, handlers) ==
    [h \in HandlerIds |-> IF h \in handlers THEN d[h] + 1 ELSE d[h]]

WsBounded(w) ==
    /\ w.stale <= MaxSockets
    /\ w.closing <= MaxSockets
    /\ w.timers <= MaxSockets

WsKeep == UNCHANGED <<appVars, orderVars, mergeVars, twVars, unknownAt>>

\* App.initSession calls wsClient.connect(session_id) (App.tsx 41)
WsConnect ==
    /\ ws.sessionId = NULL
    /\ ws' = connect(ws, "s1")
    /\ WsBounded(ws')
    /\ UNCHANGED <<delivered, droppedAt>>
    /\ WsKeep

\* onopen (29-32)
WsOnOpen ==
    /\ ws.sock = "connecting"
    /\ ws' = [ws EXCEPT !.sock = "open", !.reconnectAttempts = 0]
    /\ UNCHANGED <<delivered, droppedAt>>
    /\ WsKeep

\* variant: a payload that fails to parse closes the socket
WsOnMessageStrict(payload) ==
    /\ ws.sock = "open" \/ ws.stale > 0
    /\ IF payload = "bad"
       THEN /\ droppedAt' = delivered
            /\ ws' = attemptReconnect([ws EXCEPT !.sock = "none"])
            /\ WsBounded(ws')
            /\ UNCHANGED delivered
       ELSE /\ \A h \in ws.handlers : delivered[h] < MaxDelivered
            /\ delivered' = notifyHandlers(delivered, ws.handlers)
            /\ UNCHANGED <<ws, droppedAt>>
    /\ WsKeep

\* onmessage (34-42) of a socket that is open; JSON.parse throws on "bad"
WsOnMessage(payload) ==
    /\ ws.sock = "open" \/ ws.stale > 0
    /\ IF payload = "bad"
       THEN /\ droppedAt' = delivered
            /\ UNCHANGED <<ws, delivered>>
       ELSE /\ \A h \in ws.handlers : delivered[h] < MaxDelivered
            /\ delivered' = notifyHandlers(delivered, ws.handlers)
            /\ UNCHANGED <<ws, droppedAt>>
    /\ WsKeep

\* onclose (48-51) of the socket in this.ws: the server or the network closed it
WsOnClose ==
    /\ Live(ws.sock)
    /\ ws' = attemptReconnect([ws EXCEPT !.sock = "none"])
    /\ WsBounded(ws')
    /\ UNCHANGED <<delivered, droppedAt>>
    /\ WsKeep

\* onclose of a replaced socket
WsStaleClose ==
    /\ ws.stale > 0
    /\ ws' = attemptReconnect([ws EXCEPT !.stale = @ - 1])
    /\ WsBounded(ws')
    /\ UNCHANGED <<delivered, droppedAt>>
    /\ WsKeep

\* onclose of a socket that disconnect() closed
WsCloseEvent ==
    /\ ws.closing > 0
    /\ ws' = attemptReconnect([ws EXCEPT !.closing = @ - 1])
    /\ WsBounded(ws')
    /\ UNCHANGED <<delivered, droppedAt>>
    /\ WsKeep

\* the reconnect timeout fires (59-63)
WsReconnectTimer ==
    /\ ws.timers > 0
    /\ ws' = IF ws.sessionId # NULL
             THEN connect([ws EXCEPT !.timers = @ - 1], ws.sessionId)
             ELSE [ws EXCEPT !.timers = @ - 1]
    /\ WsBounded(ws')
    /\ UNCHANGED <<delivered, droppedAt>>
    /\ WsKeep

\* disconnect() (67-74), called when App unmounts (App.tsx 53)
WsDisconnect ==
    /\ ws.sessionId # NULL
    /\ ws' = [ws EXCEPT !.sock = "none",
                        !.closing = IF Live(ws.sock) THEN @ + 1 ELSE @,
                        !.sessionId = NULL,
                        !.reconnectAttempts = 0]
    /\ WsBounded(ws')
    /\ UNCHANGED <<delivered, droppedAt>>
    /\ WsKeep

\* addMessageHandler / removeMessageHandler (76-82)
WsAddHandler(h) ==
    /\ h \notin ws.handlers
    /\ ws' = [ws EXCEPT !.handlers = @ \cup {h}]
    /\ UNCHANGED <<delivered, droppedAt>>
    /\ WsKeep

WsRemoveHandler(h) ==
    /\ h \in ws.handlers
    /\ ws' = [ws EXCEPT !.handlers = @ \ {h}]
    /\ UNCHANGED <<delivered, droppedAt>>
    /\ WsKeep

WsNext ==
    \/ WsConnect
    \/ WsOnOpen
    \/ \E payload \in Payloads : WsOnMessage(payload)
    \/ WsOnClose
    \/ WsStaleClose
    \/ WsCloseEvent
    \/ WsReconnectTimer
    \/ WsDisconnect
    \/ \E h \in HandlerIds : WsAddHandler(h)
    \/ \E h \in HandlerIds : WsRemoveHandler(h)

WsSpec == Init /\ [][WsNext]_vars

\* C23: a payload that fails to parse is dropped: the step notifies no
\* handler, leaves the socket, the reconnect counter and the timers as they
\* are, and the handlers stay registered.
C23_ParseFailureDropped ==
    [][WsOnMessage("bad") => UNCHANGED <<delivered, ws>>]_vars

\* after a payload was dropped, with two handlers registered and the socket
\* open, both handlers have been notified of a later message
C23_Witness ==
    /\ ws.sock = "open"
    /\ ws.handlers = HandlerIds
    /\ \A h \in HandlerIds : droppedAt[h] >= 0 /\ delivered[h] > droppedAt[h]

\* C37: reconnectAttempts never exceeds maxReconnectAttempts; every reconnect
\* that is scheduled counts as one attempt; the counter goes down only to 0
\* and only in onopen or disconnect(); and once it is at the maximum no step
\* schedules another connection.
C37_ReconnectBounded ==
    /\ [](ws.reconnectAttempts <= MaxReconnectAttempts)
    /\ [][/\ ws'.timers > ws.timers
             => ws'.reconnectAttempts = ws.reconnectAttempts + 1
          /\ ws'.reconnectAttempts < ws.reconnectAttempts
             => ws'.reconnectAttempts = 0 /\ (WsOnOpen \/ WsDisconnect)
          /\ ws.reconnectAttempts = MaxReconnectAttempts
             => ws'.timers <= ws.timers]_vars

\* five attempts were made without an open, the last connection has closed
\* too, and nothing is scheduled although the session is still set
C37_Witness ==
    /\ ws.reconnectAttempts = MaxReconnectAttempts
    /\ ws.sessionId # NULL
    /\ ws.sock = "none"
    /\ ws.timers = 0
    /\ ws.stale = 0 /\ ws.closing = 0

\* C38: while no session is set (after disconnect() and until the next
\* connect()), no step opens a socket or schedules a reconnect: the close
\* event of the disconnected socket and a timer scheduled earlier do
\* nothing; and a reconnect timer never opens a socket while another one is
\* live, in particular not next to the socket of a later connect().
C38_NoReconnectAfterDisconnect ==
    /\ [][ws.sessionId = NULL /\ ws'.sessionId = NULL
             => /\ ws'.sock = "none"
                /\ ws'.timers <= ws.timers
                /\ ws'.stale <= ws.stale]_vars
    /\ [][WsReconnectTimer => ~(Live(ws.sock) /\ ws'.stale > ws.stale)]_vars

====
